---------------------------- MODULE Spec2Model ----------------------------
(***************************************************************************)
(* Inventory, purchase orders, receiving, the session cart and checkout of *)
(* GearShiftSystems (src/app.py, src/cart.py, src/models.py).              *)
(*                                                                         *)
(* The committed database is one variable, db, a record of tables; every   *)
(* table is a function from the primary keys in use to the row.  Each      *)
(* request handler is one action: it reads db, commits (or rolls back)     *)
(* and leaves its answer in last.  In SpecRace the handlers that read and  *)
(* later write are split at that point and run interleaved; what a request *)
(* has read is kept in reqs.                                               *)
(*                                                                         *)
(*   Spec         parts and the life of a purchase order                   *)
(*   SpecShop     parts in stock, the session cart, checkout               *)
(*   SpecCatalog  parts with and without vendor, drafting purchase orders  *)
(*   SpecPrice    one part whose price is edited, and its purchase order   *)
(*   SpecRace     add_part, checkout and receive served at the same time   *)
(*   SpecRacePo   send, cancel and receive of one PO at the same time      *)
(*   SpecValidate the parts pages with forms that leave fields out         *)
(*   SpecReorder  parts around their thresholds and the low-stock listings *)
(*   SpecVendor   vendors, their parts and purchase orders                 *)
(*                                                                         *)
(* Money is modelled in whole units (the code uses floats), and a          *)
(* timestamp is NULL or Stamp (the value of datetime.utcnow()).            *)
(***************************************************************************)
EXTENDS Integers, Sequences, FiniteSets, TLC

VARIABLES db, cart, last, reqs

vars == <<db, cart, last, reqs>>

-----------------------------------------------------------------------------
(* Bounds of the model.                                                    *)

MaxParts == 2      \* part ids in use never exceed this
MaxPOs == 1        \* purchase orders ever created

-----------------------------------------------------------------------------
(* Values.                                                                 *)

NULL == "NULL"

\* NULL in the integer column vendor_id (the ids of a table start at 1)
NoVendor == 0
Stamp == "utcnow"

Max2(a, b) == IF a >= b THEN a ELSE b
Min2(a, b) == IF a <= b THEN a ELSE b

\* Python's int() on the strings the requests of this model carry; a string
\* outside the table raises ValueError.
IntTable ==
    [s \in {"-1", "0", "1", "2", "01", "4", "5", "10"} |->
        CASE s = "-1" -> -1
          [] s = "0" -> 0
          [] s = "1" -> 1
          [] s = "2" -> 2
          [] s = "01" -> 1
          [] s = "4" -> 4
          [] s = "5" -> 5
          [] s = "10" -> 10]

IsInt(s) == s \in DOMAIN IntTable

\* _i(v, d): int(v), or d when int() raises
SafeInt(v, d) == IF IsInt(v) THEN IntTable[v] ELSE d

\* _f(v, d): float(v), or d when float() raises
SafeFloat(v, d) == IF IsInt(v) THEN IntTable[v] ELSE d

\* the largest key in use plus one (SQLite's rowid for a new row)
NextId(table) ==
    IF DOMAIN table = {} THEN 1
    ELSE (CHOOSE m \in DOMAIN table : \A k \in DOMAIN table : k <= m) + 1

\* the ascending sequence of the elements of a finite set of integers
RECURSIVE SortedSeq(_)
SortedSeq(S) ==
    IF S = {} THEN <<>>
    ELSE LET m == CHOOSE x \in S : \A y \in S : x <= y
         IN <<m>> \o SortedSeq(S \ {m})

EmptyTable == [k \in {} |-> NULL]

\* table with row r stored under key k
Put(table, k, r) == [x \in DOMAIN table \cup {k} |-> IF x = k THEN r ELSE table[x]]

\* table without key k
Drop(table, k) == [x \in DOMAIN table \ {k} |-> table[x]]

\* the rows added at the end of a table kept as a sequence
Appended(old, new) == SubSeq(new, Len(old) + 1, Len(new))

-----------------------------------------------------------------------------
(* Answers.                                                                *)

NoForm == [k \in {} |-> ""]

\* how the last request was answered: the handler, the id of its URL and
\* the message it flashed
Answer(op, id, flash) == [op |-> op, id |-> id, flash |-> flash]

\* what a handler hands back: the tables it committed and its message
Result(d, flash) == [db |-> d, flash |-> flash]

ServerError == "500 Internal Server Error"

\* the requests being served: none while the handlers run one at a time
NoRequests == [r \in {} |-> NULL]

-----------------------------------------------------------------------------
(* The state after db.create_all(): empty tables, no session cart.         *)

Init ==
    /\ db = [parts |-> EmptyTable, pos |-> EmptyTable, items |-> EmptyTable,
             movements |-> <<>>, orders |-> EmptyTable, order_items |-> <<>>,
             vendors |-> EmptyTable]
    /\ cart = NoForm
    /\ last = Answer("init", 0, "")
    /\ reqs = NoRequests

-----------------------------------------------------------------------------
(* Parts: add / edit / delete.                                             *)

Names == {"Brake Pad Set"}
Skus == {"BP-100", "OF-200"}
PriceInputs == {"1"}
StockInputs == {"-1", "0"}
ThresholdInputs == {"1"}
VendorInputs == {""}

PartForms ==
    [name : Names, sku : Skus, price : PriceInputs, stock : StockInputs,
     reorder_threshold : ThresholdInputs, vendor_id : VendorInputs]

\* the Part row built from a form
PartStock(form) == SafeInt(form.stock, 0)

PartRow(form) ==
    [name |-> form.name,
     sku |-> form.sku,
     price |-> SafeFloat(form.price, 0),
     stock |-> PartStock(form),
     reorder_threshold |-> SafeInt(form.reorder_threshold, 5),
     vendor_id |-> IF form.vendor_id # "" THEN SafeInt(form.vendor_id, NoVendor)
                  ELSE NoVendor]

\* a parts table without the unique constraint
SkuTaken_Never(parts, id, sku) == FALSE

\* the unique constraint on parts.sku, for a row stored under id
SkuTaken(parts, id, sku) == \E p \in DOMAIN parts : p # id /\ parts[p].sku = sku

\* what add_part commits and answers
AddPart(d, form) ==
    IF form.sku # "" /\ SkuTaken(d.parts, 0, form.sku)
    THEN Result(d, "SKU already exists.")
    ELSE IF SkuTaken(d.parts, 0, form.sku)
    THEN Result(d, "Database error while adding part.")
    ELSE Result([d EXCEPT !.parts = Put(@, NextId(@), PartRow(form))], "Part added!")

add_part(form) ==
    /\ NextId(db.parts) <= MaxParts
    /\ UNCHANGED <<cart, reqs>>
    /\ db' = AddPart(db, form).db
    /\ last' = Answer("add_part",
                      IF AddPart(db, form).flash = "Part added!"
                      THEN NextId(db.parts) ELSE 0,
                      AddPart(db, form).flash)

\* what edit_part commits and answers
EditPart(d, part_id, form) ==
    IF form.sku # "" /\ SkuTaken(d.parts, part_id, form.sku)
    THEN Result(d, "SKU is already used by another part.")
    ELSE IF SkuTaken(d.parts, part_id, form.sku)
    THEN Result(d, ServerError)
    ELSE Result([d EXCEPT !.parts[part_id] = PartRow(form)], "Part updated.")

edit_part(part_id, form) ==
    /\ part_id \in DOMAIN db.parts
    /\ UNCHANGED <<cart, reqs>>
    /\ db' = EditPart(db, part_id, form).db
    /\ last' = Answer("edit_part", part_id, EditPart(db, part_id, form).flash)

delete_part(part_id) ==
    /\ part_id \in DOMAIN db.parts
    /\ UNCHANGED <<cart, reqs>>
    /\ /\ db' = [db EXCEPT !.parts = Drop(@, part_id)]
            /\ last' = Answer("delete_part", part_id, "Part deleted.")

PartIds == 1..MaxParts

\* forms with the required fields left empty or not numeric
ValidateForms ==
    [name : {"", "Brake Pad Set"}, sku : {"", "BP-100", "OF-200"},
     price : {"x", "1"}, stock : {"x", "0", "1"},
     reorder_threshold : ThresholdInputs, vendor_id : VendorInputs]

-----------------------------------------------------------------------------
(* Purchase orders: create.                                                *)

\* ORDER BY Part.name ASC; rows of equal name come in id order
NameOrder == <<"Brake Pad Set">>

NameRank(name) == CHOOSE i \in 1..Len(NameOrder) : NameOrder[i] = name

RECURSIVE OrderByName(_, _)
OrderByName(parts, ids) ==
    IF ids = {} THEN <<>>
    ELSE LET first == CHOOSE p \in ids : \A q \in ids :
                          \/ NameRank(parts[p].name) < NameRank(parts[q].name)
                          \/ /\ NameRank(parts[p].name) = NameRank(parts[q].name)
                             /\ p <= q
         IN <<first>> \o OrderByName(parts, ids \ {first})

QtyInputs == {"0", "2"}

\* every selection of part ids with its qty_<id> fields
Selections == UNION {[S -> QtyInputs] : S \in SUBSET PartIds}

\* qty_map[int(pid)] = max(int(form qty_<pid>), 0), and 0 when int() raises
QtyMap(sel, pid) == Max2(SafeInt(sel[pid], 0), 0)

\* the (part, qty) rows that enter by_vendor, in the order of the query
IsOrdered(qty) == qty > 0

PoRows(parts, sel) ==
    SelectSeq(OrderByName(parts, DOMAIN sel \cap DOMAIN parts),
              LAMBDA p : IsOrdered(QtyMap(sel, p)))

\* by_vendor's keys in insertion order
RECURSIVE VendorKeys(_, _)
VendorKeys(parts, rows) ==
    IF rows = <<>> THEN <<>>
    ELSE LET rest == VendorKeys(parts, SelectSeq(Tail(rows),
                        LAMBDA p : parts[p].vendor_id # parts[Head(rows)].vendor_id))
         IN <<parts[Head(rows)].vendor_id>> \o rest

\* one group holding every row
GroupRows_All(parts, rows, vendor_id) == rows

\* the rows of one vendor group
GroupRows(parts, rows, vendor_id) ==
    SelectSeq(rows, LAMBDA p : parts[p].vendor_id = vendor_id)

NewPo(vendor_id) ==
    [vendor_id |-> vendor_id, status |-> "DRAFT",
     approved_at |-> NULL, sent_at |-> NULL, received_at |-> NULL]

\* a line that does not take the price of the part
NewPoItem_NoCost(po_id, part_id, qty, part) ==
    [purchase_order_id |-> po_id, product_id |-> part_id,
     qty_ordered |-> qty, qty_received |-> 0, unit_cost |-> 0]

NewPoItem(po_id, part_id, qty, part) ==
    [purchase_order_id |-> po_id, product_id |-> part_id,
     qty_ordered |-> qty, qty_received |-> 0, unit_cost |-> part.price]

\* the lines of the groups, one after the other, each with its PO's id
RECURSIVE PoLines(_, _, _, _, _)
PoLines(parts, sel, rows, keys, po_id) ==
    IF keys = <<>> THEN <<>>
    ELSE LET group == GroupRows(parts, rows, Head(keys))
         IN [i \in 1..Len(group) |->
                NewPoItem(po_id, group[i], QtyMap(sel, group[i]), parts[group[i]])]
            \o PoLines(parts, sel, rows, Tail(keys), po_id + 1)

\* what create_pos commits and answers; id is the PO the answer redirects to
CreateResult(d, id, flash) == [db |-> d, id |-> id, flash |-> flash]

CreatePos(d, sel) ==
    LET rows == PoRows(d.parts, sel)
        keys == VendorKeys(d.parts, rows)
        po0 == NextId(d.pos)
        it0 == NextId(d.items)
        lines == PoLines(d.parts, sel, rows, keys, po0)
    IN IF DOMAIN sel = {}
       THEN CreateResult(d, 0, "No items selected for PO.")
       ELSE IF rows = <<>>
       THEN CreateResult(d, 0, "All selected items had zero quantity.")
       ELSE CreateResult(
                [d EXCEPT
                    !.pos = [k \in DOMAIN @ \cup (po0..(po0 + Len(keys) - 1)) |->
                                IF k \in DOMAIN @ THEN @[k] ELSE NewPo(keys[k - po0 + 1])],
                    !.items = [k \in DOMAIN @ \cup (it0..(it0 + Len(lines) - 1)) |->
                                IF k \in DOMAIN @ THEN @[k] ELSE lines[k - it0 + 1]]],
                IF Len(keys) = 1 THEN po0 ELSE 0,
                IF Len(keys) = 1 THEN "Purchase Order created in DRAFT."
                ELSE "Purchase Orders created in DRAFT.")

\* create_pos while the purchase orders ever created stay within max
create_pos_upto(sel, max) ==
    /\ Cardinality(DOMAIN CreatePos(db, sel).db.pos) <= max
    /\ db' = CreatePos(db, sel).db
    /\ last' = Answer("create_pos", CreatePos(db, sel).id, CreatePos(db, sel).flash)
    /\ UNCHANGED <<cart, reqs>>

create_pos(sel) == create_pos_upto(sel, MaxPOs)

-----------------------------------------------------------------------------
(* Purchase orders: approve / send / cancel.                               *)

PoIds == 1..MaxPOs

\* approve without the status guard
CanApprove_Any(status) == TRUE

CanApprove(status) == status = "DRAFT"

Approve(d, po_id) ==
    IF ~CanApprove(d.pos[po_id].status)
    THEN Result(d, "Only DRAFT POs can be approved.")
    ELSE Result([d EXCEPT !.pos[po_id].status = "APPROVED",
                          !.pos[po_id].approved_at = Stamp],
                "PO approved.")

po_approve(po_id) ==
    /\ po_id \in DOMAIN db.pos
    /\ db' = Approve(db, po_id).db
    /\ last' = Answer("po_approve", po_id, Approve(db, po_id).flash)
    /\ UNCHANGED <<cart, reqs>>

CanSend(status) == status \in {"APPROVED", "DRAFT"}

\* a send that is undone when the email fails
Send_Undone(d, po_id, email_ok) ==
    IF ~CanSend(d.pos[po_id].status)
    THEN Result(d, "Only DRAFT or APPROVED POs can be sent.")
    ELSE IF email_ok
    THEN Result([d EXCEPT !.pos[po_id].status = "SENT",
                          !.pos[po_id].sent_at = Stamp],
                "PO sent to vendor (see ./outbox).")
    ELSE Result(d, ServerError)

\* _emit_vendor_email runs after the commit; email_ok is whether it returns
Send(d, po_id, email_ok) ==
    IF ~CanSend(d.pos[po_id].status)
    THEN Result(d, "Only DRAFT or APPROVED POs can be sent.")
    ELSE Result([d EXCEPT !.pos[po_id].status = "SENT",
                          !.pos[po_id].sent_at = Stamp],
                IF email_ok THEN "PO sent to vendor (see ./outbox)." ELSE ServerError)

po_send(po_id, email_ok) ==
    /\ po_id \in DOMAIN db.pos
    /\ db' = Send(db, po_id, email_ok).db
    /\ last' = Answer("po_send", po_id, Send(db, po_id, email_ok).flash)
    /\ UNCHANGED <<cart, reqs>>

\* cancel without the status guard
CanCancel_Any(status) == TRUE

CanCancel(status) == status \notin {"RECEIVED"}

\* a cancel that takes the received quantities back out of stock
Cancel_Reverts(d, po_id) ==
    IF ~CanCancel(d.pos[po_id].status)
    THEN Result(d, "Received POs cannot be canceled.")
    ELSE Result([d EXCEPT !.pos[po_id].status = "CANCELED",
                          !.items = [i \in DOMAIN d.items |->
                                        IF d.items[i].purchase_order_id = po_id
                                        THEN [d.items[i] EXCEPT !.qty_received = 0]
                                        ELSE d.items[i]]],
                "PO canceled.")

Cancel(d, po_id) ==
    IF ~CanCancel(d.pos[po_id].status)
    THEN Result(d, "Received POs cannot be canceled.")
    ELSE Result([d EXCEPT !.pos[po_id].status = "CANCELED"], "PO canceled.")

po_cancel(po_id) ==
    /\ po_id \in DOMAIN db.pos
    /\ db' = Cancel(db, po_id).db
    /\ last' = Answer("po_cancel", po_id, Cancel(db, po_id).flash)
    /\ UNCHANGED <<cart, reqs>>

-----------------------------------------------------------------------------
(* Purchase orders: receive.                                               *)

\* po.items
ItemsOf(items, po_id) == {i \in DOMAIN items : items[i].purchase_order_id = po_id}

ReceiveInputs == {"", "x", "-1", "0", "1", "2"}

\* the receive_<item.id> fields of a request; a field left out reads as ""
ReceiveForms(items, po_id) == [ItemsOf(items, po_id) -> ReceiveInputs] \cup {NoForm}

FormGet(form, key) == IF key \in DOMAIN form THEN form[key] ELSE ""

\* receive without the status guard
CanReceive_Any(status) == TRUE

CanReceive(status) == status \in {"SENT", "APPROVED", "PARTIALLY_RECEIVED"}

\* abs() where the code has max(.., 0)
ReceiveDelta_Abs(fval) ==
    IF fval = "" THEN 0
    ELSE IF SafeInt(fval, 0) < 0 THEN 0 - SafeInt(fval, 0) ELSE SafeInt(fval, 0)

\* delta = max(int(fval), 0), 0 when int() raises; a blank field is skipped
ReceiveDelta(fval) == IF fval = "" THEN 0 ELSE Max2(SafeInt(fval, 0), 0)

\* the cap taken from qty_ordered alone
Remaining_IgnoresReceived(it) == Max2(it.qty_ordered, 0)

Remaining(it) == Max2(it.qty_ordered - it.qty_received, 0)

\* the requested quantity applied without the cap
ToApply_NoCap(delta, remaining) == delta

ToApply(delta, remaining) == Min2(delta, remaining)

\* a movement that records the opposite amount
Movement_Negated(product_id, qty_delta, reason, ref_type, ref_id) ==
    [product_id |-> product_id, qty_delta |-> 0 - qty_delta, reason |-> reason,
     ref_type |-> ref_type, ref_id |-> ref_id]

Movement(product_id, qty_delta, reason, ref_type, ref_id) ==
    [product_id |-> product_id, qty_delta |-> qty_delta, reason |-> reason,
     ref_type |-> ref_type, ref_id |-> ref_id]

\* the movement referring to the part where the code refers to the PO
ReceiveMovement_WrongRef(product_id, to_apply, po_id) ==
    Movement(product_id, to_apply, "PO_RECEIVE", "PO", product_id)

ReceiveMovement(product_id, to_apply, po_id) ==
    Movement(product_id, to_apply, "PO_RECEIVE", "PO", po_id)

\* the loop over po.items on the session's copy s of the tables; s.failed
\* is the AttributeError of part.stock when Part.query.get finds no row
RECURSIVE ReceiveLines(_, _, _, _)
ReceiveLines(ids, po_id, deltas, s) ==
    IF ids = <<>> \/ s.failed THEN s
    ELSE LET id == Head(ids)
             it == s.items[id]
             to_apply == ToApply(deltas[id], Remaining(it))
         IN IF deltas[id] <= 0 \/ to_apply <= 0
            THEN ReceiveLines(Tail(ids), po_id, deltas, s)
            ELSE IF it.product_id \notin DOMAIN s.parts
            THEN [s EXCEPT !.failed = TRUE]
            ELSE ReceiveLines(Tail(ids), po_id, deltas,
                    [s EXCEPT !.items[id].qty_received = @ + to_apply,
                              !.parts[it.product_id].stock = @ + to_apply,
                              !.movements = Append(@, ReceiveMovement(it.product_id, to_apply, po_id)),
                              !.any_received = TRUE])

AllFull(items, po_id) ==
    \A i \in ItemsOf(items, po_id) : items[i].qty_received >= items[i].qty_ordered

\* every receipt closes the PO
StatusAfterReceive_AlwaysReceived(all_full) == "RECEIVED"

StatusAfterReceive(all_full) == IF all_full THEN "RECEIVED" ELSE "PARTIALLY_RECEIVED"

\* received_at stamped by every receipt
ReceivedAtAfter_Always(status, received_at) == Stamp

ReceivedAtAfter(status, received_at) == IF status = "RECEIVED" THEN Stamp ELSE received_at

\* the delta of every line of the PO, as the loop reads it from the form
Deltas(items, po_id, form) ==
    [i \in ItemsOf(items, po_id) |-> ReceiveDelta(FormGet(form, i))]

\* a receive that keeps what it applied before it failed
Receive_KeepsPartial(d, po_id, form) ==
    IF ~CanReceive(d.pos[po_id].status)
    THEN Result(d, "PO must be SENT or APPROVED to receive.")
    ELSE LET s == ReceiveLines(SortedSeq(ItemsOf(d.items, po_id)), po_id,
                        Deltas(d.items, po_id, form),
                        [items |-> d.items, parts |-> d.parts,
                         movements |-> d.movements,
                         any_received |-> FALSE, failed |-> FALSE])
             status == StatusAfterReceive(AllFull(s.items, po_id))
         IN IF s.failed
            THEN Result([d EXCEPT !.items = s.items, !.parts = s.parts,
                                  !.movements = s.movements], ServerError)
            ELSE IF ~s.any_received THEN Result(d, "No quantities to receive.")
            ELSE Result([d EXCEPT
                            !.items = s.items, !.parts = s.parts,
                            !.movements = s.movements,
                            !.pos[po_id].status = status,
                            !.pos[po_id].received_at = ReceivedAtAfter(status, @)],
                        "Receipt recorded.")

Receive(d, po_id, form) ==
    IF ~CanReceive(d.pos[po_id].status)
    THEN Result(d, "PO must be SENT or APPROVED to receive.")
    ELSE LET s == ReceiveLines(SortedSeq(ItemsOf(d.items, po_id)), po_id,
                        Deltas(d.items, po_id, form),
                        [items |-> d.items, parts |-> d.parts,
                         movements |-> d.movements,
                         any_received |-> FALSE, failed |-> FALSE])
             status == StatusAfterReceive(AllFull(s.items, po_id))
         IN IF s.failed THEN Result(d, ServerError)
            ELSE IF ~s.any_received THEN Result(d, "No quantities to receive.")
            ELSE Result([d EXCEPT
                            !.items = s.items, !.parts = s.parts,
                            !.movements = s.movements,
                            !.pos[po_id].status = status,
                            !.pos[po_id].received_at = ReceivedAtAfter(status, @)],
                        "Receipt recorded.")

po_receive(po_id, form) ==
    /\ po_id \in DOMAIN db.pos
    /\ db' = Receive(db, po_id, form).db
    /\ last' = Answer("po_receive", po_id, Receive(db, po_id, form).flash)
    /\ UNCHANGED <<cart, reqs>>

-----------------------------------------------------------------------------

Next ==
    \/ \E form \in PartForms : add_part(form)
    \/ \E part_id \in PartIds, form \in PartForms : edit_part(part_id, form)
    \/ \E part_id \in PartIds : delete_part(part_id)
    \/ \E sel \in Selections : create_pos(sel)
    \/ \E po_id \in PoIds : po_approve(po_id)
    \/ \E po_id \in PoIds, email_ok \in BOOLEAN : po_send(po_id, email_ok)
    \/ \E po_id \in PoIds : po_cancel(po_id)
    \/ \E po_id \in PoIds : \E form \in ReceiveForms(db.items, po_id) : po_receive(po_id, form)

Spec == Init /\ [][Next]_vars

-----------------------------------------------------------------------------
(* Vendors: add / delete.                                                  *)

MaxVendors == 2    \* vendor ids in use

VendorNames == {"", "Acme", "Turbo"}

VendorIds == 1..MaxVendors

\* the unique constraint on vendors.name
NameTaken(vendors, name) == \E v \in DOMAIN vendors : vendors[v].name = name

\* what add_vendor commits and answers
AddVendor(d, name) ==
    IF name = ""
    THEN Result(d, "Vendor name is required.")
    ELSE IF NameTaken(d.vendors, name)
    THEN Result(d, ServerError)
    ELSE Result([d EXCEPT !.vendors = Put(@, NextId(@), [name |-> name])],
                "Vendor added.")

add_vendor(name) ==
    /\ NextId(db.vendors) <= MaxVendors
    /\ db' = AddVendor(db, name).db
    /\ last' = Answer("add_vendor", 0, AddVendor(db, name).flash)
    /\ UNCHANGED <<cart, reqs>>

\* Vendor.parts: the delete of a Vendor sets the vendor_id of its Parts to
\* NULL
Orphaned(parts, vendor_id) ==
    [p \in DOMAIN parts |->
        IF parts[p].vendor_id = vendor_id
        THEN [parts[p] EXCEPT !.vendor_id = NoVendor]
        ELSE parts[p]]

\* what delete_vendor commits and answers
DeleteVendor(d, vendor_id) ==
    Result([d EXCEPT !.vendors = Drop(@, vendor_id),
                     !.parts = Orphaned(@, vendor_id)],
           "Vendor deleted.")

delete_vendor(vendor_id) ==
    /\ vendor_id \in DOMAIN db.vendors
    /\ db' = DeleteVendor(db, vendor_id).db
    /\ last' = Answer("delete_vendor", vendor_id, DeleteVendor(db, vendor_id).flash)
    /\ UNCHANGED <<cart, reqs>>

\* parts of one vendor or of none
VendorForms ==
    [name : Names, sku : Skus, price : PriceInputs, stock : {"0"},
     reorder_threshold : ThresholdInputs, vendor_id : {"", "1", "2"}]

NextVendor ==
    \/ \E name \in VendorNames : add_vendor(name)
    \/ \E vendor_id \in VendorIds : delete_vendor(vendor_id)
    \/ \E form \in VendorForms : add_part(form)
    \/ \E sel \in Selections : create_pos(sel)

SpecVendor == Init /\ [][NextVendor]_vars

-----------------------------------------------------------------------------

(* Low stock: the dashboard, the parts list and the reorder draft.         *)

\* Part.is_low_stock with a strict comparison
is_low_stock_Strict(part) == part.stock < part.reorder_threshold

\* Part.is_low_stock
is_low_stock(part) == part.stock <= part.reorder_threshold

\* a filter that leaves out the parts at their threshold
LowStockFilter_Strict(parts) ==
    {p \in DOMAIN parts : parts[p].stock < parts[p].reorder_threshold}

\* .filter(Part.stock <= Part.reorder_threshold)
LowStockFilter(parts) ==
    {p \in DOMAIN parts : parts[p].stock <= parts[p].reorder_threshold}

\* the rows a page is rendered with
Page(rows) == [rows |-> rows]

\* GET /: low_parts, in the order of their ids
index ==
    /\ last' = Answer("index", 0, Page(SortedSeq(LowStockFilter(db.parts))))
    /\ UNCHANGED <<db, cart, reqs>>

\* GET /parts, with ?low=1 or without; the answer keeps the filter asked for
list_parts(low_only) ==
    /\ last' = Answer("list_parts", low_only,
                      Page(OrderByName(db.parts,
                               IF low_only = 1 THEN LowStockFilter(db.parts)
                               ELSE DOMAIN db.parts)))
    /\ UNCHANGED <<db, cart, reqs>>

\* GET /reorder/draft
reorder_draft ==
    /\ last' = Answer("reorder_draft", 0,
                      Page(OrderByName(db.parts, LowStockFilter(db.parts))))
    /\ UNCHANGED <<db, cart, reqs>>

\* the quantity the reorder draft suggests for a part
suggested_reorder_qty(part) ==
    IF ~is_low_stock(part) THEN 0
    ELSE LET target == Max2(part.reorder_threshold * 2, part.stock + 1)
         IN Max2(target - part.stock, 1)

\* the suggestion shown for one part
suggest(part_id) ==
    /\ part_id \in DOMAIN db.parts
    /\ last' = Answer("suggested_reorder_qty", part_id,
                      suggested_reorder_qty(db.parts[part_id]))
    /\ UNCHANGED <<db, cart, reqs>>

\* parts around their thresholds
ReorderForms ==
    [name : Names, sku : Skus, price : {"1"},
     stock : {"-1", "0", "1", "4", "5"},
     reorder_threshold : {"0", "4", "5", "10"}, vendor_id : VendorInputs]

NextReorder ==
    \/ \E form \in ReorderForms : add_part(form)
    \/ \E part_id \in PartIds : \E form \in ReorderForms : edit_part(part_id, form)
    \/ \E part_id \in PartIds : delete_part(part_id)
    \/ index
    \/ \E low_only \in {0, 1} : list_parts(low_only)
    \/ reorder_draft
    \/ \E part_id \in PartIds : suggest(part_id)

SpecReorder == Init /\ [][NextReorder]_vars

-----------------------------------------------------------------------------

(* The parts pages alone, with forms that leave required fields out.       *)

NextValidate ==
    \/ \E form \in ValidateForms : add_part(form)
    \/ \E part_id \in PartIds : \E form \in ValidateForms : edit_part(part_id, form)
    \/ \E part_id \in PartIds : delete_part(part_id)

SpecValidate == Init /\ [][NextValidate]_vars

-----------------------------------------------------------------------------
(* The session cart and the checkout (src/cart.py).                        *)

MaxOrders == 2     \* orders ever placed

\* the id strings update_cart can be sent; "01" and "1" are the same part
CartKeys == {"01", "1", "2"}

\* the cart comes back from the session cookie with its keys sorted
CartKeyOrder == <<"01", "1", "2">>

\* str.isdigit()
IsDigit(s) == s \in {"0", "1", "2", "01"}

\* str(part_id)
Str(n) == CHOOSE s \in {"0", "1", "2"} : IntTable[s] = n

CartGet(c, key, d) == IF key \in DOMAIN c THEN c[key] ELSE d

\* cart.pop(key, None)
CartPop(c, key) == [k \in DOMAIN c \ {key} |-> c[k]]

\* cart[key] = q
CartSet(c, key, q) == [k \in DOMAIN c \cup {key} |-> IF k = key THEN q ELSE c[k]]

\* one (part, q, line) of _cart_items
CartLine(parts, c, sid) ==
    [part_id |-> IntTable[sid],
     qty |-> Max2(0, c[sid]),
     line |-> parts[IntTable[sid]].price * Max2(0, c[sid])]

\* the keys of the cart that resolve to a Part
Resolves(parts, c, sid) ==
    /\ sid \in DOMAIN c
    /\ IsDigit(sid)
    /\ IsInt(sid)
    /\ IntTable[sid] \in DOMAIN parts

RECURSIVE CartItemsFrom(_, _, _)
CartItemsFrom(parts, c, i) ==
    IF i > Len(CartKeyOrder) THEN <<>>
    ELSE (IF Resolves(parts, c, CartKeyOrder[i])
          THEN <<CartLine(parts, c, CartKeyOrder[i])>> ELSE <<>>)
         \o CartItemsFrom(parts, c, i + 1)

_cart_items(parts, c) == CartItemsFrom(parts, c, 1)

\* the payloads of update_cart: one (id, qty) pair, or nothing
UpdateQtys == {"0", "1", "2", "x"}
UpdatePayloads == [sid : CartKeys, sqty : UpdateQtys] \cup {NoForm}

BadRequest == "400 Bad Request"

update_cart(payload) ==
    /\ UNCHANGED <<db, reqs>>
    /\ IF payload = NoForm
       THEN /\ last' = Answer("update_cart", 0, BadRequest)
            /\ UNCHANGED cart
       ELSE /\ cart' = IF Max2(0, SafeInt(payload.sqty, 0)) = 0
                       THEN CartPop(cart, payload.sid)
                       ELSE CartSet(cart, payload.sid, Max2(0, SafeInt(payload.sqty, 0)))
            /\ last' = Answer("update_cart", 0, "Cart updated.")

add(part_id) ==
    /\ part_id \in DOMAIN db.parts
    /\ UNCHANGED <<db, reqs>>
    /\ IF db.parts[part_id].stock <= 0
       THEN /\ last' = Answer("add", part_id, "That item is out of stock.")
            /\ UNCHANGED cart
       ELSE /\ cart' = CartSet(cart, Str(part_id),
                               Min2(CartGet(cart, Str(part_id), 0) + 1,
                                    db.parts[part_id].stock))
            /\ last' = Answer("add", part_id, "Added to cart.")

remove(part_id) ==
    /\ cart' = CartPop(cart, Str(part_id))
    /\ last' = Answer("remove", part_id, "Item removed.")
    /\ UNCHANGED <<db, reqs>>

\* Order(status="paid", total_amount=...) once the total is set
NewOrder(total) == [status |-> "paid", total_amount |-> total]

\* the OrderItem snapshot of one cart line
NewOrderItem(order_id, part, it) ==
    [order_id |-> order_id,
     part_id |-> it.part_id,
     name_snapshot |-> part.name,
     sku_snapshot |-> part.sku,
     unit_price |-> part.price,
     quantity |-> it.qty,
     line_total |-> it.line]

\* order_total += line, over the items
RECURSIVE OrderTotal(_)
OrderTotal(items) ==
    IF items = <<>> THEN 0 ELSE Head(items).line + OrderTotal(Tail(items))

\* part.stock = part.stock - qty, item after item
RECURSIVE DecrementStock(_, _)
DecrementStock(parts, items) ==
    IF items = <<>> THEN parts
    ELSE DecrementStock([parts EXCEPT ![Head(items).part_id].stock = @ - Head(items).qty],
                        Tail(items))

\* validation of the first line only
ShortOfStock_FirstLine(parts, items) ==
    items[1].qty > parts[items[1].part_id].stock

\* "Validate stock one last time": some line asks for more than the stock
ShortOfStock(parts, items) ==
    \E i \in 1..Len(items) : items[i].qty > parts[items[i].part_id].stock

Placed == "Order placed. Inventory updated."

\* what a checkout commits and answers, and the cart it leaves
CheckoutResult(d, c, order_id, flash) ==
    [db |-> d, cart |-> c, id |-> order_id, flash |-> flash]

\* a checkout that fails when a cart entry has no Part
Checkout_RefusesDangling(d, c) ==
    LET items == _cart_items(d.parts, c)
        order_id == NextId(d.orders)
    IN IF \E sid \in DOMAIN c : ~Resolves(d.parts, c, sid)
       THEN CheckoutResult(d, c, 0, ServerError)
       ELSE IF items = <<>>
       THEN CheckoutResult(d, c, 0, "Your cart is empty.")
       ELSE IF ShortOfStock(d.parts, items)
       THEN CheckoutResult(d, c, 0, "Not enough stock.")
       ELSE CheckoutResult(
                [d EXCEPT
                   !.orders = Put(@, order_id, NewOrder(OrderTotal(items))),
                   !.order_items = @ \o [i \in 1..Len(items) |->
                       NewOrderItem(order_id, d.parts[items[i].part_id], items[i])],
                   !.parts = DecrementStock(@, items)],
                NoForm, order_id, Placed)

Checkout(d, c) ==
    LET items == _cart_items(d.parts, c)
        order_id == NextId(d.orders)
    IN IF items = <<>>
       THEN CheckoutResult(d, c, 0, "Your cart is empty.")
       ELSE IF ShortOfStock(d.parts, items)
       THEN CheckoutResult(d, c, 0, "Not enough stock.")
       ELSE CheckoutResult(
                [d EXCEPT
                   !.orders = Put(@, order_id, NewOrder(OrderTotal(items))),
                   !.order_items = @ \o [i \in 1..Len(items) |->
                       NewOrderItem(order_id, d.parts[items[i].part_id], items[i])],
                   !.parts = DecrementStock(@, items)],
                NoForm, order_id, Placed)

checkout_submit ==
    /\ Cardinality(DOMAIN db.orders) < MaxOrders
    /\ db' = Checkout(db, cart).db
    /\ cart' = Checkout(db, cart).cart
    /\ last' = Answer("checkout_submit", Checkout(db, cart).id, Checkout(db, cart).flash)
    /\ UNCHANGED reqs

\* the catalog of the shop: parts that are in stock
ShopForms ==
    [name : Names, sku : Skus, price : {"2"}, stock : {"1", "2"},
     reorder_threshold : ThresholdInputs, vendor_id : VendorInputs]

NextShop ==
    \/ \E form \in ShopForms : add_part(form)
    \/ \E payload \in UpdatePayloads : update_cart(payload)
    \/ \E part_id \in PartIds : add(part_id)
    \/ \E part_id \in PartIds : remove(part_id)
    \/ checkout_submit

SpecShop == Init /\ [][NextShop]_vars

-----------------------------------------------------------------------------
(* Requests served at the same time.  A handler first reads (its SELECTs   *)
(* hold no lock once they returned), later writes and commits; SQLite lets *)
(* one connection write at a time, so the writes of a request up to its    *)
(* commit are one step.  What a request read is kept in reqs.              *)

MaxRequests == 2   \* requests in flight
Requests == 1..MaxRequests

\* a request in flight: its handler, its position, the rows it read, the
\* session cart and the form it came with, the id it was given on insert
Request(op, pc, snap, c, form, id) ==
    [op |-> op, pc |-> pc, snap |-> snap, cart |-> c, form |-> form, id |-> id]

InFlight(rs, op) == Cardinality({r \in DOMAIN rs : rs[r].op = op})

\* the rows a checkout reads: the parts
CheckoutReads(d) ==
    [d EXCEPT !.pos = EmptyTable, !.items = EmptyTable, !.movements = <<>>,
              !.orders = EmptyTable, !.order_items = <<>>]

\* the rows a receive reads: the PO, its lines, the parts
ReceiveReads(d) ==
    [d EXCEPT !.movements = <<>>, !.orders = EmptyTable, !.order_items = <<>>]

\* the connection could not get the write lock in time (OperationalError)
Locked(ok) == ~ok

\* the UPDATEs and INSERTs of a checkout that read snap, on the tables cur
CheckoutWrites(cur, snap, c) ==
    LET items == _cart_items(snap.parts, c)
        order_id == NextId(cur.orders)
        after == DecrementStock(snap.parts, items)
    IN [cur EXCEPT
          !.orders = Put(@, order_id, NewOrder(OrderTotal(items))),
          !.order_items = @ \o [i \in 1..Len(items) |->
              NewOrderItem(order_id, snap.parts[items[i].part_id], items[i])],
          !.parts = [p \in DOMAIN @ |->
              IF p \in DOMAIN snap.parts /\ after[p].stock # snap.parts[p].stock
              THEN [@[p] EXCEPT !.stock = after[p].stock] ELSE @[p]]]

\* cart.py 132-142: read the cart and the parts, validate
checkout_read(r) ==
    /\ r \notin DOMAIN reqs
    /\ Cardinality(DOMAIN db.orders) + InFlight(reqs, "checkout_submit") < MaxOrders
    /\ UNCHANGED <<db, cart>>
    /\ IF Checkout(db, cart).flash # Placed
       THEN /\ last' = Answer("checkout_submit", 0, Checkout(db, cart).flash)
            /\ UNCHANGED reqs
       ELSE /\ reqs' = Put(reqs, r, Request("checkout_submit", "read", CheckoutReads(db), cart, NoForm, 0))
            /\ UNCHANGED last

\* a checkout that clears the cart before its commit
checkout_commit_ClearsFirst(r, ok) ==
    /\ r \in DOMAIN reqs
    /\ reqs[r].op = "checkout_submit"
    /\ reqs[r].pc = "read"
    /\ cart' = NoForm
    /\ IF Locked(ok)
       THEN /\ last' = Answer("checkout_submit", 0, ServerError)
            /\ reqs' = Drop(reqs, r)
            /\ UNCHANGED db
       ELSE /\ db' = CheckoutWrites(db, reqs[r].snap, reqs[r].cart)
            /\ reqs' = [reqs EXCEPT ![r].pc = "committed", ![r].id = NextId(db.orders)]
            /\ UNCHANGED last

\* cart.py 148-176: insert the order and its items, update the stock, commit
checkout_commit(r, ok) ==
    /\ r \in DOMAIN reqs
    /\ reqs[r].op = "checkout_submit"
    /\ reqs[r].pc = "read"
    /\ UNCHANGED cart
    /\ IF Locked(ok)
       THEN /\ last' = Answer("checkout_submit", 0, ServerError)
            /\ reqs' = Drop(reqs, r)
            /\ UNCHANGED db
       ELSE /\ db' = CheckoutWrites(db, reqs[r].snap, reqs[r].cart)
            /\ reqs' = [reqs EXCEPT ![r].pc = "committed", ![r].id = NextId(db.orders)]
            /\ UNCHANGED last

\* cart.py 178-184: clear the cart, answer
checkout_clear(r) ==
    /\ r \in DOMAIN reqs
    /\ reqs[r].op = "checkout_submit"
    /\ reqs[r].pc = "committed"
    /\ cart' = NoForm
    /\ last' = Answer("checkout_submit", reqs[r].id, Placed)
    /\ reqs' = Drop(reqs, r)
    /\ UNCHANGED db

\* app.py 191-206: the pre-check of the SKU
add_part_check(r, form) ==
    /\ r \notin DOMAIN reqs
    /\ NextId(db.parts) + InFlight(reqs, "add_part") <= MaxParts
    /\ UNCHANGED <<db, cart>>
    /\ IF form.sku # "" /\ SkuTaken(db.parts, 0, form.sku)
       THEN /\ last' = Answer("add_part", 0, "SKU already exists.")
            /\ UNCHANGED reqs
       ELSE /\ reqs' = Put(reqs, r, Request("add_part", "read", NULL, NoForm, form, 0))
            /\ UNCHANGED last

\* app.py 208-226: insert and commit, under the unique constraint
add_part_commit(r, ok) ==
    /\ r \in DOMAIN reqs
    /\ reqs[r].op = "add_part"
    /\ reqs' = Drop(reqs, r)
    /\ UNCHANGED cart
    /\ IF Locked(ok)
       THEN /\ last' = Answer("add_part", 0, ServerError)
            /\ UNCHANGED db
       ELSE IF SkuTaken(db.parts, 0, reqs[r].form.sku)
       THEN /\ last' = Answer("add_part", 0, "Database error while adding part.")
            /\ UNCHANGED db
       ELSE /\ db' = [db EXCEPT !.parts = Put(@, NextId(@), PartRow(reqs[r].form))]
            /\ last' = Answer("add_part", NextId(db.parts), "Part added!")

\* the UPDATEs and INSERTs of a receive that read snap, on the tables cur:
\* each attribute the handler changed is written to its row by primary key
ReceiveWrites(cur, snap, po_id, form) ==
    LET res == Receive(snap, po_id, form).db
    IN [cur EXCEPT
          !.items = [i \in DOMAIN @ |->
              IF i \in DOMAIN snap.items
                 /\ res.items[i].qty_received # snap.items[i].qty_received
              THEN [@[i] EXCEPT !.qty_received = res.items[i].qty_received] ELSE @[i]],
          !.parts = [p \in DOMAIN @ |->
              IF p \in DOMAIN snap.parts /\ res.parts[p].stock # snap.parts[p].stock
              THEN [@[p] EXCEPT !.stock = res.parts[p].stock] ELSE @[p]],
          !.pos[po_id] = [@ EXCEPT
              !.status = IF res.pos[po_id].status # snap.pos[po_id].status
                         THEN res.pos[po_id].status ELSE @,
              !.received_at = IF res.pos[po_id].received_at # snap.pos[po_id].received_at
                              THEN res.pos[po_id].received_at ELSE @],
          !.movements = @ \o Appended(snap.movements, res.movements)]

\* app.py 570-610: load the PO, its lines and their parts; work out the receipt
receive_read(r, po_id, form) ==
    /\ r \notin DOMAIN reqs
    /\ po_id \in DOMAIN db.pos
    /\ UNCHANGED <<db, cart>>
    /\ IF Receive(db, po_id, form).flash # "Receipt recorded."
       THEN /\ last' = Answer("po_receive", po_id, Receive(db, po_id, form).flash)
            /\ UNCHANGED reqs
       ELSE /\ reqs' = Put(reqs, r, Request("po_receive", "read", ReceiveReads(db), NoForm, form, po_id))
            /\ UNCHANGED last

\* app.py 618: flush and commit
receive_commit(r, ok) ==
    /\ r \in DOMAIN reqs
    /\ reqs[r].op = "po_receive"
    /\ reqs' = Drop(reqs, r)
    /\ UNCHANGED cart
    /\ IF Locked(ok)
       THEN /\ last' = Answer("po_receive", reqs[r].id, ServerError)
            /\ UNCHANGED db
       ELSE /\ db' = ReceiveWrites(db, reqs[r].snap, reqs[r].id, reqs[r].form)
            /\ last' = Answer("po_receive", reqs[r].id, "Receipt recorded.")

RaceReceiveForms(items, po_id) == [ItemsOf(items, po_id) -> {"1", "2"}]

RaceForms ==
    [name : Names, sku : {"BP-100"}, price : {"2"}, stock : {"2"},
     reorder_threshold : ThresholdInputs, vendor_id : VendorInputs]

RacePayloads == [sid : {"1"}, sqty : {"1", "2"}]

RaceSelections == [{1} -> {"2"}]

NextRace ==
    \/ \E r \in Requests, form \in RaceForms : add_part_check(r, form)
    \/ \E r \in Requests, ok \in BOOLEAN : add_part_commit(r, ok)
    \/ \E payload \in RacePayloads : update_cart(payload)
    \/ \E r \in Requests : checkout_read(r)
    \/ \E r \in Requests, ok \in BOOLEAN : checkout_commit(r, ok)
    \/ \E r \in Requests : checkout_clear(r)
    \/ \E sel \in RaceSelections : create_pos(sel)
    \/ \E po_id \in PoIds : po_approve(po_id)
    \/ \E r \in Requests, po_id \in PoIds :
          \E form \in RaceReceiveForms(db.items, po_id) : receive_read(r, po_id, form)
    \/ \E r \in Requests, ok \in BOOLEAN : receive_commit(r, ok)

SpecRace == Init /\ [][NextRace]_vars

-----------------------------------------------------------------------------
(* The catalog with vendors: parts of a vendor and parts without vendor,   *)
(* and the purchase orders drafted from them.                              *)

MaxCatalogPOs == 2     \* purchase orders ever created from the catalog

CatalogForms ==
    [name : Names, sku : Skus, price : PriceInputs, stock : {"0"},
     reorder_threshold : ThresholdInputs, vendor_id : {"", "1"}]

CatalogQtys == {"x", "0", "1", "2"}

CatalogSelections == UNION {[S -> CatalogQtys] : S \in SUBSET PartIds}

NextCatalog ==
    \/ \E form \in CatalogForms : add_part(form)
    \/ \E part_id \in PartIds, form \in CatalogForms : edit_part(part_id, form)
    \/ \E sel \in CatalogSelections : create_pos_upto(sel, MaxCatalogPOs)

SpecCatalog == Init /\ [][NextCatalog]_vars

-----------------------------------------------------------------------------
(* One part whose price is edited while a purchase order runs its course.  *)

PriceForms ==
    [name : Names, sku : {"BP-100"}, price : {"1", "2"}, stock : {"0"},
     reorder_threshold : ThresholdInputs, vendor_id : VendorInputs]

\* PurchaseOrder.total
RECURSIVE SumLines(_, _)
SumLines(items, ids) ==
    IF ids = <<>> THEN 0
    ELSE items[Head(ids)].qty_ordered * items[Head(ids)].unit_cost
         + SumLines(items, Tail(ids))

total(items, po_id) == SumLines(items, SortedSeq(ItemsOf(items, po_id)))

NextPrice ==
    \/ \E form \in PriceForms : add_part(form)
    \/ \E part_id \in PartIds, form \in PriceForms : edit_part(part_id, form)
    \/ \E part_id \in PartIds : delete_part(part_id)
    \/ \E sel \in Selections : create_pos(sel)
    \/ \E po_id \in PoIds : po_approve(po_id)
    \/ \E po_id \in PoIds, email_ok \in BOOLEAN : po_send(po_id, email_ok)
    \/ \E po_id \in PoIds : po_cancel(po_id)
    \/ \E po_id \in PoIds : \E form \in ReceiveForms(db.items, po_id) : po_receive(po_id, form)

SpecPrice == Init /\ [][NextPrice]_vars

-----------------------------------------------------------------------------
(* Send, cancel and receive of one purchase order served at the same time. *)

\* app.py 553-556: load the PO and check its status
send_read(r, po_id) ==
    /\ r \notin DOMAIN reqs
    /\ po_id \in DOMAIN db.pos
    /\ UNCHANGED <<db, cart>>
    /\ IF ~CanSend(db.pos[po_id].status)
       THEN /\ last' = Answer("po_send", po_id, Send(db, po_id, TRUE).flash)
            /\ UNCHANGED reqs
       ELSE /\ reqs' = Put(reqs, r, Request("po_send", "read", db.pos[po_id], NoForm, NoForm, po_id))
            /\ UNCHANGED last

\* app.py 557-560: UPDATE status and sent_at, commit, then the vendor email
send_commit(r, ok, email_ok) ==
    /\ r \in DOMAIN reqs
    /\ reqs[r].op = "po_send"
    /\ reqs' = Drop(reqs, r)
    /\ UNCHANGED cart
    /\ IF Locked(ok)
       THEN /\ last' = Answer("po_send", reqs[r].id, ServerError)
            /\ UNCHANGED db
       ELSE /\ db' = [db EXCEPT !.pos[reqs[r].id].status = "SENT",
                                !.pos[reqs[r].id].sent_at = Stamp]
            /\ last' = Answer("po_send", reqs[r].id,
                              Send([db EXCEPT !.pos[reqs[r].id] = reqs[r].snap],
                                   reqs[r].id, email_ok).flash)

\* app.py 624-627: load the PO and check its status
cancel_read(r, po_id) ==
    /\ r \notin DOMAIN reqs
    /\ po_id \in DOMAIN db.pos
    /\ UNCHANGED <<db, cart>>
    /\ IF ~CanCancel(db.pos[po_id].status)
       THEN /\ last' = Answer("po_cancel", po_id, Cancel(db, po_id).flash)
            /\ UNCHANGED reqs
       ELSE /\ reqs' = Put(reqs, r, Request("po_cancel", "read", db.pos[po_id], NoForm, NoForm, po_id))
            /\ UNCHANGED last

\* app.py 628-630: UPDATE status (when it differs from the status read), commit
cancel_commit(r, ok) ==
    /\ r \in DOMAIN reqs
    /\ reqs[r].op = "po_cancel"
    /\ reqs' = Drop(reqs, r)
    /\ UNCHANGED cart
    /\ IF Locked(ok)
       THEN /\ last' = Answer("po_cancel", reqs[r].id, ServerError)
            /\ UNCHANGED db
       ELSE /\ db' = IF reqs[r].snap.status = "CANCELED" THEN db
                     ELSE [db EXCEPT !.pos[reqs[r].id].status = "CANCELED"]
            /\ last' = Answer("po_cancel", reqs[r].id, "PO canceled.")

NextRacePo ==
    \/ \E form \in RaceForms : add_part(form)
    \/ \E sel \in RaceSelections : create_pos(sel)
    \/ \E po_id \in PoIds : po_approve(po_id)
    \/ \E r \in Requests, po_id \in PoIds : send_read(r, po_id)
    \/ \E r \in Requests, ok \in BOOLEAN, email_ok \in BOOLEAN : send_commit(r, ok, email_ok)
    \/ \E r \in Requests, po_id \in PoIds : cancel_read(r, po_id)
    \/ \E r \in Requests, ok \in BOOLEAN : cancel_commit(r, ok)
    \/ \E r \in Requests, po_id \in PoIds :
          \E form \in RaceReceiveForms(db.items, po_id) : receive_read(r, po_id, form)
    \/ \E r \in Requests, ok \in BOOLEAN : receive_commit(r, ok)

SpecRacePo == Init /\ [][NextRacePo]_vars

-----------------------------------------------------------------------------

(* The purchase-order state machine.                                       *)

\* the edges of the state machine
Edge(from, to) ==
    \/ from = "DRAFT" /\ to = "APPROVED"
    \/ from \in {"DRAFT", "APPROVED"} /\ to = "SENT"
    \/ /\ from \in {"SENT", "APPROVED", "PARTIALLY_RECEIVED"}
       /\ to \in {"PARTIALLY_RECEIVED", "RECEIVED"}
    \/ from # "RECEIVED" /\ to = "CANCELED"

\* C1: over any sequence of create, approve, send, receive and cancel
\* requests a PO is created in DRAFT, is never removed, and every change of
\* its status is an edge of the state machine.
C1_OnlyAllowedEdges ==
    [][/\ \A p \in DOMAIN db.pos :
            /\ p \in DOMAIN db'.pos
            /\ db'.pos[p].status # db.pos[p].status
                   => Edge(db.pos[p].status, db'.pos[p].status)
       /\ \A p \in DOMAIN db'.pos \ DOMAIN db.pos : db'.pos[p].status = "DRAFT"]_vars

\* C1 witness: a PO that was partially received has just been canceled
C1_Witness ==
    /\ last.op = "po_cancel" /\ last.flash = "PO canceled."
    /\ db.pos[last.id].status = "CANCELED"
    /\ db.pos[last.id].sent_at = Stamp
    /\ \E i \in ItemsOf(db.items, last.id) : db.items[i].qty_received > 0

\* C2: once a PO is RECEIVED or CANCELED no request changes its status.
C2_TerminalStatuses ==
    [][\A p \in DOMAIN db.pos :
            db.pos[p].status \in {"RECEIVED", "CANCELED"}
                => /\ p \in DOMAIN db'.pos
                   /\ db'.pos[p].status = db.pos[p].status]_vars

\* C2 witness: a request has just been refused on a RECEIVED PO
C2_Witness ==
    /\ last.op \in {"po_cancel", "po_approve", "po_send", "po_receive"}
    /\ last.id \in DOMAIN db.pos
    /\ db.pos[last.id].status = "RECEIVED"
    /\ last.flash \in {"Received POs cannot be canceled.",
                       "Only DRAFT POs can be approved.",
                       "Only DRAFT or APPROVED POs can be sent.",
                       "PO must be SENT or APPROVED to receive."}

-----------------------------------------------------------------------------
(* Receiving.                                                              *)

\* C3: 0 <= qty_received <= qty_ordered for every PurchaseOrderItem, in
\* every reachable state.
C3_ReceivedWithinOrdered ==
    \A i \in DOMAIN db.items :
        /\ 0 <= db.items[i].qty_received
        /\ db.items[i].qty_received <= db.items[i].qty_ordered

\* the quantity a receive_<id> field asks for: its integer when positive
Requested(fval) == IF IsInt(fval) /\ IntTable[fval] > 0 THEN IntTable[fval] ELSE 0

\* applied = min(requested, qty_ordered - qty_received) for a positive request
Applied(it, fval) ==
    IF Requested(fval) > 0
    THEN Min2(Requested(fval), it.qty_ordered - it.qty_received)
    ELSE 0

\* C3 witness: after a receipt a line has one unit left, and a receive asking
\* for two takes that one unit and fills the line
C3_Witness ==
    /\ last.op = "po_receive" /\ last.flash = "Receipt recorded."
    /\ \E i \in ItemsOf(db.items, last.id) :
          /\ db.items[i].qty_ordered - db.items[i].qty_received = 1
          /\ LET r == Receive(db, last.id, [k \in {i} |-> "2"])
             IN /\ r.flash = "Receipt recorded."
                /\ r.db.items[i].qty_received = db.items[i].qty_ordered

-----------------------------------------------------------------------------
(* Stock and the ledger.                                                   *)

\* C4: stock >= 0 for every Part, in every reachable state.
C4_StockNonNegative == \A p \in DOMAIN db.parts : db.parts[p].stock >= 0

RECURSIVE SumDelta(_, _)
\* the sum of qty_delta over the movements of a part
SumDelta(movements, part_id) ==
    IF movements = <<>> THEN 0
    ELSE (IF Head(movements).product_id = part_id THEN Head(movements).qty_delta ELSE 0)
         + SumDelta(Tail(movements), part_id)


\* C5: ledger consistency: every change of a Part's stock is committed with
\* ledger entries of the same signed amount, and no ledger entry is written
\* without that change of stock (so the stock a Part was created with plus
\* its movements is its stock).
C5_LedgerConsistency ==
    [][\A p \in DOMAIN db.parts \cap DOMAIN db'.parts :
            db'.parts[p].stock - db.parts[p].stock
                = SumDelta(Appended(db.movements, db'.movements), p)]_vars

-----------------------------------------------------------------------------
(* The effect of a receive.                                                *)

\* what C6 says of a receive of form on the PO po that brings d to e
ReceiveEffect(d, e, po, form) ==
    LET lines == ItemsOf(d.items, po)
        applied == [i \in lines |-> Applied(d.items[i], FormGet(form, i))]
        taken == {i \in lines : applied[i] > 0}
        new == Appended(d.movements, e.movements)
    IN /\ taken # {}
       /\ DOMAIN e.items = DOMAIN d.items
       /\ \A i \in DOMAIN d.items :
             e.items[i] = IF i \in taken
                          THEN [d.items[i] EXCEPT !.qty_received = @ + applied[i]]
                          ELSE d.items[i]
       /\ DOMAIN e.parts = DOMAIN d.parts
       /\ \A i \in taken :
             /\ d.items[i].product_id \in DOMAIN d.parts
             /\ e.parts[d.items[i].product_id] =
                   [d.parts[d.items[i].product_id] EXCEPT !.stock = @ + applied[i]]
       /\ \A p \in DOMAIN d.parts :
             (\A i \in taken : d.items[i].product_id # p) => e.parts[p] = d.parts[p]
       /\ SubSeq(e.movements, 1, Len(d.movements)) = d.movements
       /\ Len(new) = Cardinality(taken)
       /\ \A i \in taken :
             \E k \in 1..Len(new) :
                new[k] = [product_id |-> d.items[i].product_id,
                          qty_delta |-> applied[i],
                          reason |-> "PO_RECEIVE",
                          ref_type |-> "PO", ref_id |-> po]

\* C6: in every reachable state, a receive that succeeds adds applied =
\* min(requested, qty_ordered - qty_received) to qty_received of every line
\* with applied > 0, adds exactly applied to the stock of the line's Part,
\* appends exactly one StockMovement(+applied, PO_RECEIVE, PO, the PO's id)
\* for it, and leaves every other line, Part and ledger entry as it was.
C6_ReceiveEffect ==
    \A po \in DOMAIN db.pos : \A form \in ReceiveForms(db.items, po) :
        Receive(db, po, form).flash = "Receipt recorded."
            => ReceiveEffect(db, Receive(db, po, form).db, po, form)

\* C6 witness: receipts of a PO of two lines have been recorded, the first
\* line in two parts and the second at once, each with its own movement
C6_Witness ==
    /\ last.op = "po_receive" /\ last.flash = "Receipt recorded."
    /\ Cardinality(ItemsOf(db.items, last.id)) = 2
    /\ Len(db.movements) = 3
    /\ \A k \in 1..3 : db.movements[k].ref_id = last.id
    /\ db.movements[1].product_id = db.movements[2].product_id
    /\ db.movements[2].product_id # db.movements[3].product_id
    /\ db.movements[3].qty_delta = 2
    /\ \A i \in ItemsOf(db.items, last.id) :
          /\ db.items[i].qty_received = db.items[i].qty_ordered
          /\ db.items[i].product_id \in DOMAIN db.parts

Received == last'.op = "po_receive" /\ last'.flash = "Receipt recorded."

\* C7: after a receive that applied a quantity the PO is RECEIVED if every
\* line has qty_received >= qty_ordered and PARTIALLY_RECEIVED otherwise, and
\* received_at is set by the receive that moves the PO to RECEIVED and by
\* nothing else.
C7_StatusAfterReceive ==
    [][/\ Received =>
            LET po == last'.id
                full == \A i \in ItemsOf(db'.items, po) :
                            db'.items[i].qty_received >= db'.items[i].qty_ordered
            IN /\ db'.pos[po].status = IF full THEN "RECEIVED" ELSE "PARTIALLY_RECEIVED"
               /\ full => db'.pos[po].received_at # NULL
       /\ \A p \in DOMAIN db'.pos :
            IF p \in DOMAIN db.pos /\ db'.pos[p].received_at = db.pos[p].received_at
            THEN TRUE
            ELSE IF db'.pos[p].received_at = NULL
            THEN p \notin DOMAIN db.pos
            ELSE /\ Received /\ last'.id = p
                 /\ db'.pos[p].status = "RECEIVED"
                 /\ db.pos[p].status # "RECEIVED"]_vars

\* C7 witness: a line received in two parts, PARTIALLY_RECEIVED in between,
\* and the second receipt has just moved the PO to RECEIVED
C7_Witness ==
    /\ last.op = "po_receive" /\ last.flash = "Receipt recorded."
    /\ db.pos[last.id].status = "RECEIVED"
    /\ db.pos[last.id].received_at = Stamp
    /\ Cardinality(ItemsOf(db.items, last.id)) = 1
    /\ Len(db.movements) = 2
    /\ \A i \in ItemsOf(db.items, last.id) :
          /\ db.items[i].product_id \in DOMAIN db.parts
          /\ db.parts[db.items[i].product_id].stock = db.items[i].qty_ordered

\* a receipt has just been recorded and every line form asks for is full
Satisfied(form) ==
    /\ last.op = "po_receive" /\ last.flash = "Receipt recorded."
    /\ \E i \in DOMAIN form : Requested(form[i]) > 0
    /\ \A i \in DOMAIN form :
          Requested(form[i]) > 0 => db.items[i].qty_received >= db.items[i].qty_ordered

\* C8 as claimed: after a receive that fully satisfied the lines it asked
\* for, the same receive again reports NothingToReceive and changes nothing.
C8_RetryReportsNothingToReceive ==
    \A form \in ReceiveForms(db.items, last.id) :
        Satisfied(form) =>
            /\ Receive(db, last.id, form).flash = "No quantities to receive."
            /\ Receive(db, last.id, form).db = db

\* C8: after a receive that fully satisfied the lines it asked for, the same
\* receive again changes no stock, no qty_received and no ledger entry; it
\* reports NothingToReceive while the PO is PARTIALLY_RECEIVED and is refused
\* by the status guard when the first call made the PO RECEIVED.
C8_RetryChangesNothing ==
    \A form \in ReceiveForms(db.items, last.id) :
        Satisfied(form) =>
            /\ Receive(db, last.id, form).db = db
            /\ Receive(db, last.id, form).flash =
                  IF db.pos[last.id].status = "RECEIVED"
                  THEN "PO must be SENT or APPROVED to receive."
                  ELSE "No quantities to receive."

\* C8 witness: one receipt filled one line of a PO of two lines, and the
\* same request again has been answered with NothingToReceive
C8_Witness ==
    /\ last.op = "po_receive" /\ last.flash = "No quantities to receive."
    /\ db.pos[last.id].status = "PARTIALLY_RECEIVED"
    /\ Len(db.movements) = 1
    /\ \E i \in ItemsOf(db.items, last.id) :
          /\ db.items[i].qty_received = db.items[i].qty_ordered
          /\ db.movements[1].qty_delta = db.items[i].qty_ordered
          /\ db.movements[1].product_id = db.items[i].product_id
          /\ Receive(db, last.id, [k \in {i} |-> "2"]).flash = "No quantities to receive."

\* C9: a receive on a receivable PO in which no line has applied > 0 (no
\* field, blank, non-numeric, zero or negative quantities, or only lines
\* already full) reports NothingToReceive and changes nothing.
C9_NothingToReceiveIsNoOp ==
    \A po \in DOMAIN db.pos : \A form \in ReceiveForms(db.items, po) :
        (/\ db.pos[po].status \in {"SENT", "APPROVED", "PARTIALLY_RECEIVED"}
         /\ \A i \in ItemsOf(db.items, po) :
               Applied(db.items[i], FormGet(form, i)) <= 0)
          => Receive(db, po, form) = Result(db, "No quantities to receive.")

\* C9 witness: a receive on a PO with a line still open has been answered
\* with NothingToReceive, as a receive of a negative and a non-numeric
\* quantity is
C9_Witness ==
    /\ last.op = "po_receive" /\ last.flash = "No quantities to receive."
    /\ \E i, j \in ItemsOf(db.items, last.id) :
          /\ i # j
          /\ db.items[i].qty_received < db.items[i].qty_ordered
          /\ Receive(db, last.id, [k \in {i, j} |-> IF k = i THEN "-1" ELSE "x"])
                = Result(db, "No quantities to receive.")

\* C10: approve when status # DRAFT, send when status is not DRAFT or
\* APPROVED, receive when status is not SENT, APPROVED or PARTIALLY_RECEIVED,
\* and cancel when status = RECEIVED are refused and change nothing.
C10_RefusedActionChangesNothing ==
    \A po \in DOMAIN db.pos :
        /\ db.pos[po].status # "DRAFT"
              => Approve(db, po) = Result(db, "Only DRAFT POs can be approved.")
        /\ db.pos[po].status \notin {"DRAFT", "APPROVED"}
              => \A email_ok \in BOOLEAN :
                    Send(db, po, email_ok) = Result(db, "Only DRAFT or APPROVED POs can be sent.")
        /\ db.pos[po].status \notin {"SENT", "APPROVED", "PARTIALLY_RECEIVED"}
              => \A form \in ReceiveForms(db.items, po) :
                    Receive(db, po, form) = Result(db, "PO must be SENT or APPROVED to receive.")
        /\ db.pos[po].status = "RECEIVED"
              => Cancel(db, po) = Result(db, "Received POs cannot be canceled.")

\* C10 witness: a receive on a DRAFT PO has just been refused
C10_Witness ==
    /\ last.op = "po_receive"
    /\ last.flash = "PO must be SENT or APPROVED to receive."
    /\ db.pos[last.id].status = "DRAFT"
    /\ db.pos[last.id].approved_at = NULL

-----------------------------------------------------------------------------
(* Checkout.                                                               *)

\* the quantity the lines of the cart ask of one part
RECURSIVE SumQty(_, _)
SumQty(items, part_id) ==
    IF items = <<>> THEN 0
    ELSE (IF Head(items).part_id = part_id THEN Head(items).qty ELSE 0)
         + SumQty(Tail(items), part_id)

(* C11: a successful checkout creates one order with one snapshot item per *)
(* resolved cart line, takes each line's quantity off its Part's stock,    *)
(* appends one StockMovement(-qty, SALE, ref = the order id) per line and  *)
(* sets total_amount to the sum of the line totals.                        *)
C11_CheckoutEffect ==
    LET items == _cart_items(db.parts, cart)
        r == Checkout(db, cart)
        sold == Appended(db.order_items, r.db.order_items)
        moved == Appended(db.movements, r.db.movements)
    IN r.flash = Placed =>
        /\ r.id \notin DOMAIN db.orders
        /\ DOMAIN r.db.orders = DOMAIN db.orders \cup {r.id}
        /\ Len(sold) = Len(items)
        /\ \A i \in 1..Len(items) :
              /\ sold[i].order_id = r.id
              /\ sold[i].part_id = items[i].part_id
              /\ sold[i].quantity = items[i].qty
              /\ sold[i].unit_price = db.parts[items[i].part_id].price
              /\ sold[i].name_snapshot = db.parts[items[i].part_id].name
              /\ sold[i].sku_snapshot = db.parts[items[i].part_id].sku
              /\ sold[i].line_total = sold[i].unit_price * sold[i].quantity
        /\ \A p \in DOMAIN db.parts :
              r.db.parts[p].stock = db.parts[p].stock - SumQty(items, p)
        /\ r.db.orders[r.id].total_amount = OrderTotal(items)
        /\ Len(moved) = Len(items)
        /\ \A i \in 1..Len(items) :
              /\ moved[i].product_id = items[i].part_id
              /\ moved[i].qty_delta = 0 - items[i].qty
              /\ moved[i].reason = "SALE"
              /\ moved[i].ref_id = r.id

(* C12: when some resolved cart line asks for more than its Part's stock,  *)
(* the checkout changes nothing: no stock (also of the lines that had      *)
(* enough), no order, no order item, no ledger entry.                      *)
C12_CheckoutAtomicity ==
    LET items == _cart_items(db.parts, cart)
    IN (\E i \in 1..Len(items) : items[i].qty > db.parts[items[i].part_id].stock)
       => /\ Checkout(db, cart).db = db
          /\ Checkout(db, cart).flash = "Not enough stock."

\* a refused checkout of a cart with a line that had enough stock and one
\* that had not
C12_Witness ==
    LET items == _cart_items(db.parts, cart)
    IN /\ last.op = "checkout_submit"
       /\ last.flash = "Not enough stock."
       /\ \E i, j \in 1..Len(items) :
             /\ items[i].qty > db.parts[items[i].part_id].stock
             /\ items[j].qty <= db.parts[items[j].part_id].stock
             /\ items[j].qty > 0
             /\ items[i].part_id # items[j].part_id

-----------------------------------------------------------------------------
(* Requests served at the same time.                                       *)

\* request r commits its checkout in this step
CheckoutCommits(r) ==
    /\ r \in DOMAIN reqs /\ r \in DOMAIN reqs'
    /\ reqs[r].op = "checkout_submit"
    /\ reqs[r].pc = "read" /\ reqs'[r].pc = "committed"

\* request r commits its receipt in this step
ReceiveCommits(r) ==
    /\ r \in DOMAIN reqs /\ r \notin DOMAIN reqs'
    /\ reqs[r].op = "po_receive"
    /\ last'.flash = "Receipt recorded."

\* the cart lines request r validated
LinesOf(r) == _cart_items(reqs[r].snap.parts, reqs[r].cart)

(* C13: no update of a Part's stock is lost between requests served at the *)
(* same time: when a checkout or a receive commits, each Part's stock is   *)
(* the stock committed just before plus the request's own delta, so after  *)
(* two requests the stock is the starting stock plus both deltas.          *)
C13_NoLostUpdate ==
    [][\A r \in Requests : \A p \in DOMAIN db.parts :
          /\ CheckoutCommits(r) =>
                db'.parts[p].stock = db.parts[p].stock - SumQty(LinesOf(r), p)
          /\ ReceiveCommits(r) =>
                db'.parts[p].stock = db.parts[p].stock
                    + SumDelta(Appended(db.movements, db'.movements), p)]_vars

(* C14: a checkout is validated against the stock current when it commits: *)
(* it commits only if that stock covers what its lines ask of each Part,   *)
(* so interleaved checkouts never sell more than the stock there was.      *)
C14_ValidatedAtCommit ==
    [][\A r \in Requests : CheckoutCommits(r) =>
          \A p \in DOMAIN db.parts : SumQty(LinesOf(r), p) <= db.parts[p].stock]_vars

\* request r ends without having committed
CheckoutFails(r) ==
    /\ r \in DOMAIN reqs /\ r \notin DOMAIN reqs'
    /\ reqs[r].op = "checkout_submit" /\ reqs[r].pc = "read"

\* request r, committed, clears the cart and answers
CheckoutClears(r) ==
    /\ r \in DOMAIN reqs /\ r \notin DOMAIN reqs'
    /\ reqs[r].op = "checkout_submit" /\ reqs[r].pc = "committed"

(* C18: the cart is cleared only after a successful checkout commit: a     *)
(* checkout that fails (empty cart, not enough stock, failed commit)       *)
(* leaves the cart as it was, the commit itself leaves it, and the cart is *)
(* cleared in a later step of a request whose order is committed.          *)
C18_CartClearedAfterCommit ==
    [][/\ (last'.op = "checkout_submit" /\ last'.flash # Placed) => cart' = cart
       /\ \A r \in Requests :
             /\ CheckoutFails(r) => cart' = cart /\ db' = db
             /\ CheckoutCommits(r) => cart' = cart
             /\ CheckoutClears(r) => /\ cart' = NoForm
                                     /\ reqs[r].id \in DOMAIN db.orders
                                     /\ last'.flash = Placed
       /\ (last'.op = "checkout_submit" /\ cart' # cart) =>
             \E r \in Requests : CheckoutClears(r)]_vars

\* a checkout has committed its order and then cleared the cart
C18_Witness ==
    /\ last = Answer("checkout_submit", 1, Placed)
    /\ cart = NoForm
    /\ DOMAIN db.orders = {1}
    /\ Len(db.order_items) > 0
    /\ reqs = NoRequests

\* no two parts with the same SKU
SkuUnique(parts) ==
    \A p, q \in DOMAIN parts : p # q => parts[p].sku # parts[q].sku

\* this step answers an add_part with a refusal
AddRefused ==
    /\ last'.op = "add_part"
    /\ last'.flash \in {"SKU already exists.", "Database error while adding part."}
    /\ \/ last' # last
       \/ \E r \in DOMAIN reqs \ DOMAIN reqs' : reqs[r].op = "add_part"

(* C19: no two Parts ever share a SKU, also when two add_part requests     *)
(* with the same SKU interleave between pre-check and insert; an add_part  *)
(* with an existing SKU fails, creates nothing and leaves the Parts as     *)
(* they were.                                                              *)
C19_SkuUniqueness ==
    [][/\ SkuUnique(db'.parts)
       /\ AddRefused => db'.parts = db.parts]_vars

\* the second of two interleaved add_part requests with the same SKU was
\* stopped by the unique constraint
C19_Witness ==
    /\ last = Answer("add_part", 0, "Database error while adding part.")
    /\ Cardinality(DOMAIN db.parts) = 1

-----------------------------------------------------------------------------
(* Drafting purchase orders.                                               *)

\* the selected parts that exist and have a positive quantity
Positive(d, sel) ==
    {p \in DOMAIN sel \cap DOMAIN d.parts : IsInt(sel[p]) /\ IntTable[sel[p]] > 0}

(* C15: create_pos groups the selected parts of positive quantity by       *)
(* vendor id, the vendor-less parts forming one group, and creates exactly *)
(* one PO per group: each new PO is in DRAFT and has at least one line,    *)
(* every new line has qty_ordered > 0 and qty_received = 0 and is of a     *)
(* part of its PO's vendor; when no selected part has a positive quantity  *)
(* the creation fails and no PO or line is persisted.                      *)
C15_OnePoPerVendor ==
    \A sel \in CatalogSelections :
        LET r == CreatePos(db, sel)
            positive == Positive(db, sel)
            groups == {db.parts[p].vendor_id : p \in positive}
            pos == DOMAIN r.db.pos \ DOMAIN db.pos
            lines == DOMAIN r.db.items \ DOMAIN db.items
        IN /\ \A k \in DOMAIN db.pos : r.db.pos[k] = db.pos[k]
           /\ \A k \in DOMAIN db.items : r.db.items[k] = db.items[k]
           /\ r.db.parts = db.parts
           /\ positive = {} =>
                 /\ r.db = db
                 /\ r.flash \in {"No items selected for PO.",
                                 "All selected items had zero quantity."}
           /\ positive # {} =>
                 /\ Cardinality(pos) = Cardinality(groups)
                 /\ \A g \in groups : \E k \in pos : r.db.pos[k].vendor_id = g
                 /\ \A k \in pos :
                       /\ r.db.pos[k].status = "DRAFT"
                       /\ \E i \in lines : r.db.items[i].purchase_order_id = k
                 /\ \A i \in lines :
                       /\ r.db.items[i].purchase_order_id \in pos
                       /\ r.db.items[i].qty_ordered > 0
                       /\ r.db.items[i].qty_received = 0
                       /\ r.db.items[i].product_id \in positive
                       /\ db.parts[r.db.items[i].product_id].vendor_id
                             = r.db.pos[r.db.items[i].purchase_order_id].vendor_id
                 /\ \A p \in positive :
                       Cardinality({i \in lines :
                          /\ r.db.items[i].product_id = p
                          /\ r.db.items[i].qty_ordered = IntTable[sel[p]]}) = 1
                 /\ Cardinality(lines) = Cardinality(positive)

\* two purchase orders were drafted at once, one for a vendor and one for
\* the parts without vendor
C15_Witness ==
    /\ last = Answer("create_pos", 0, "Purchase Orders created in DRAFT.")
    /\ DOMAIN db.pos = {1, 2}
    /\ db.pos[1].vendor_id # db.pos[2].vendor_id
    /\ NoVendor \in {db.pos[1].vendor_id, db.pos[2].vendor_id}
    /\ \A i \in DOMAIN db.items :
          /\ db.items[i].product_id \in DOMAIN db.parts
          /\ db.parts[db.items[i].product_id].vendor_id
                = db.pos[db.items[i].purchase_order_id].vendor_id

(* C16: a PO line's unit_cost is the Part's price when the PO is created   *)
(* and never changes afterwards: edits of the Part's price, approve, send, *)
(* receive and cancel leave the unit_cost of every existing line, and the  *)
(* PO total, as they were.                                                 *)
C16_UnitCostSnapshot ==
    [][/\ DOMAIN db.items \subseteq DOMAIN db'.items
       /\ \A i \in DOMAIN db.items : db'.items[i].unit_cost = db.items[i].unit_cost
       /\ \A i \in DOMAIN db'.items \ DOMAIN db.items :
             db'.items[i].unit_cost = db.parts[db'.items[i].product_id].price
       /\ \A po \in DOMAIN db.pos :
             /\ po \in DOMAIN db'.pos
             /\ total(db'.items, po) = total(db.items, po)]_vars

\* a received PO whose line still carries the price its part had when the
\* PO was created, the part's price having been edited since
C16_Witness ==
    \E i \in DOMAIN db.items :
        /\ db.items[i].product_id \in DOMAIN db.parts
        /\ db.parts[db.items[i].product_id].price # db.items[i].unit_cost
        /\ db.items[i].unit_cost > 0
        /\ db.pos[db.items[i].purchase_order_id].status = "RECEIVED"
        /\ db.parts[db.items[i].product_id].stock = db.items[i].qty_received

-----------------------------------------------------------------------------
(* Sending and deleting.                                                   *)

(* C17: in send the change to SENT is committed before the vendor          *)
(* notification and a failure of the notification never reverses it:       *)
(* after a send from DRAFT or APPROVED, also one whose notification        *)
(* failed, the PO's committed status is SENT and sent_at is set.           *)
C17_SentSurvivesNotification ==
    /\ (last.op = "po_send" /\ last.flash \in {ServerError, "PO sent to vendor (see ./outbox)."})
          => /\ db.pos[last.id].status = "SENT"
             /\ db.pos[last.id].sent_at = Stamp
    /\ \A po \in DOMAIN db.pos : CanSend(db.pos[po].status) =>
          /\ Send(db, po, FALSE).db = Send(db, po, TRUE).db
          /\ Send(db, po, FALSE).db.pos[po].status = "SENT"
          /\ Send(db, po, FALSE).db.pos[po].sent_at = Stamp
          /\ Send(db, po, FALSE).flash = ServerError

\* a send whose notification failed: the request ended in an error and the
\* PO is SENT
C17_Witness ==
    /\ last.op = "po_send"
    /\ last.flash = ServerError
    /\ db.pos[last.id].status = "SENT"
    /\ db.pos[last.id].sent_at = Stamp

(* C20: a Part is never deleted while a PO line references it: the         *)
(* product_id of every PurchaseOrderItem is the id of an existing Part, so *)
(* a receive on a receivable PO finds the Part whose stock it increments.  *)
C20_NoDanglingLine ==
    /\ \A i \in DOMAIN db.items : db.items[i].product_id \in DOMAIN db.parts
    /\ \A po \in DOMAIN db.pos : \A form \in ReceiveForms(db.items, po) :
          Receive(db, po, form).flash # ServerError

-----------------------------------------------------------------------------
(* Receive is one transaction.                                             *)

\* the receive loop of po_id under form applies a quantity to some line and
\* then meets a line whose Part cannot be loaded
AppliedBeforeAbort(d, po_id, form) ==
    LET s == ReceiveLines(SortedSeq(ItemsOf(d.items, po_id)), po_id,
                 Deltas(d.items, po_id, form),
                 [items |-> d.items, parts |-> d.parts,
                  movements |-> d.movements,
                  any_received |-> FALSE, failed |-> FALSE])
    IN CanReceive(d.pos[po_id].status) /\ s.failed /\ s.any_received

(* C22: receive is atomic across lines: a receive that aborts before its   *)
(* commit, also after it applied quantities to earlier lines, commits      *)
(* nothing: the tables after the request are the tables before it, so no   *)
(* request sees some of its lines, stock increments or ledger rows.        *)
C22_ReceiveAtomic ==
    [][(last'.op = "po_receive" /\ last'.flash = ServerError) => db' = db]_vars

\* C22 witness: a receive has just failed on a PO whose first line it had
\* applied before the Part of a later line could not be loaded
C22_Witness ==
    /\ last.op = "po_receive" /\ last.flash = ServerError
    /\ last.id \in DOMAIN db.pos
    /\ \E form \in ReceiveForms(db.items, last.id) :
          AppliedBeforeAbort(db, last.id, form)
    /\ db.movements = <<>>

-----------------------------------------------------------------------------
(* Status, line quantities and the ledger of a PO.                         *)

(* C27: in every state reached by requests served one at a time, a PO in   *)
(* DRAFT, APPROVED or SENT has qty_received = 0 on every line, a RECEIVED  *)
(* PO has qty_received = qty_ordered on every line, and a                  *)
(* PARTIALLY_RECEIVED PO has a line with qty_received > 0 and a line with  *)
(* qty_received < qty_ordered.                                             *)
C27_StatusMatchesLines ==
    \A po \in DOMAIN db.pos :
        LET lines == ItemsOf(db.items, po)
            status == db.pos[po].status
        IN /\ status \in {"DRAFT", "APPROVED", "SENT"} =>
                \A i \in lines : db.items[i].qty_received = 0
           /\ status = "RECEIVED" =>
                \A i \in lines : db.items[i].qty_received = db.items[i].qty_ordered
           /\ status = "PARTIALLY_RECEIVED" =>
                /\ \E i \in lines : db.items[i].qty_received > 0
                /\ \E i \in lines : db.items[i].qty_received < db.items[i].qty_ordered

\* C27 witness: a receipt has left a PO of two lines PARTIALLY_RECEIVED, one
\* line filled and the other untouched
C27_Witness ==
    /\ last.op = "po_receive" /\ last.flash = "Receipt recorded."
    /\ \E po \in DOMAIN db.pos :
          /\ db.pos[po].status = "PARTIALLY_RECEIVED"
          /\ \E i, j \in ItemsOf(db.items, po) :
                /\ db.items[i].qty_received = db.items[i].qty_ordered
                /\ db.items[j].qty_received = 0

RECURSIVE SumReceived(_, _, _)
\* the sum of qty_delta over the PO_RECEIVE movements of a part that refer
\* to a PO
SumReceived(movements, po_id, part_id) ==
    IF movements = <<>> THEN 0
    ELSE (IF /\ Head(movements).reason = "PO_RECEIVE"
             /\ Head(movements).ref_id = po_id
             /\ Head(movements).product_id = part_id
          THEN Head(movements).qty_delta ELSE 0)
         + SumReceived(Tail(movements), po_id, part_id)

OnlyStatusChanged(before, after, po_id) ==
    /\ after.parts = before.parts
    /\ after.items = before.items
    /\ after.movements = before.movements
    /\ after.orders = before.orders
    /\ after.order_items = before.order_items
    /\ after.vendors = before.vendors
    /\ DOMAIN after.pos = DOMAIN before.pos
    /\ \A p \in DOMAIN before.pos :
          IF p = po_id
          THEN after.pos[p] = [before.pos[p] EXCEPT
                                  !.status = after.pos[p].status,
                                  !.approved_at = after.pos[p].approved_at,
                                  !.sent_at = after.pos[p].sent_at]
          ELSE after.pos[p] = before.pos[p]

(* C29: approve, send and cancel change only the PO's status, approved_at  *)
(* and sent_at: no Part's stock, no line's qty_ordered, qty_received or    *)
(* unit_cost and no ledger row changes; a canceled PARTIALLY_RECEIVED PO   *)
(* keeps the stock it received and its ledger rows.                        *)
C29_StatusOnly ==
    [][last'.op \in {"po_approve", "po_send", "po_cancel"}
          => OnlyStatusChanged(db, db', last'.id)]_vars

\* C29 witness: a PARTIALLY_RECEIVED PO has just been canceled; the received
\* quantity is still on its line, in stock and in the ledger
C29_Witness ==
    /\ last.op = "po_cancel" /\ last.flash = "PO canceled."
    /\ last.id \in DOMAIN db.pos
    /\ db.pos[last.id].status = "CANCELED"
    /\ \E i \in ItemsOf(db.items, last.id) :
          /\ db.items[i].qty_received = 1
          /\ db.items[i].qty_ordered = 2
          /\ db.items[i].product_id \in DOMAIN db.parts
          /\ db.parts[db.items[i].product_id].stock >= 1
          /\ SumReceived(db.movements, last.id, db.items[i].product_id) = 1

-----------------------------------------------------------------------------
(* Cart entries without a Part.                                            *)

\* the entries of the cart whose key resolves to a Part
LiveCart(parts, c) ==
    [sid \in {k \in DOMAIN c : Resolves(parts, c, k)} |-> c[sid]]

(* C23: cart entries that refer to no Part are dropped at checkout without *)
(* an error: the checkout commits and answers what it would for the cart   *)
(* without them, every OrderItem it writes is for a Part of a resolving    *)
(* entry, and a cart in which no entry resolves is answered "Your cart is  *)
(* empty." and creates no order.                                           *)
C23_DanglingEntriesDropped ==
    [][last'.op = "checkout_submit" =>
          LET live == LiveCart(db.parts, cart)
              new == Appended(db.order_items, db'.order_items)
          IN /\ last'.flash \in {Placed, "Not enough stock.", "Your cart is empty."}
             /\ db' = Checkout(db, live).db
             /\ last'.flash = Checkout(db, live).flash
             /\ Len(new) \in {0, Cardinality(DOMAIN live)}
             /\ \A i \in DOMAIN new :
                   \E sid \in DOMAIN live : new[i].part_id = IntTable[sid]
             /\ DOMAIN live = {} =>
                   /\ db' = db
                   /\ last'.flash = "Your cart is empty."]_vars

\* C23 witness: a checkout of a cart whose only entry is for Part 2, which
\* does not exist, has been answered as an empty cart while Part 1 is on sale
C23_Witness ==
    /\ last.op = "checkout_submit" /\ last.flash = "Your cart is empty."
    /\ DOMAIN cart = {"2"}
    /\ DOMAIN db.parts = {1}
    /\ db.orders = EmptyTable

-----------------------------------------------------------------------------
(* Validation of the part forms.                                           *)

\* a form with an empty name, an empty SKU, or a price or stock that is not
\* a number
Malformed(form) ==
    \/ form.name = ""
    \/ form.sku = ""
    \/ ~IsInt(form.price)
    \/ ~IsInt(form.stock)

(* C21: an add_part or edit_part request with an empty name, an empty SKU  *)
(* or a non-numeric price or stock changes no state: it creates no Part    *)
(* and modifies no Part.                                                   *)
C21_MalformedChangesNothing ==
    \A form \in ValidateForms :
        Malformed(form) =>
            /\ AddPart(db, form).db = db
            /\ \A part_id \in DOMAIN db.parts : EditPart(db, part_id, form).db = db

-----------------------------------------------------------------------------
(* Low stock and the suggested reorder quantity.                           *)

\* the set of the rows of a page
RowsOf(page) == {page.rows[i] : i \in DOMAIN page.rows}

(* C24: is_low_stock(part) is true iff stock <= reorder_threshold: true    *)
(* when stock = reorder_threshold, false when stock = reorder_threshold+1; *)
(* and the low-stock listings of the dashboard, the parts list and the     *)
(* reorder draft hold exactly the Parts for which is_low_stock is true.    *)
C24_LowStock ==
    /\ \A p \in DOMAIN db.parts :
          LET part == db.parts[p]
          IN /\ is_low_stock(part) <=> ~(part.stock > part.reorder_threshold)
             /\ part.stock = part.reorder_threshold => is_low_stock(part)
             /\ part.stock = part.reorder_threshold + 1 => ~is_low_stock(part)
    /\ \/ last.op \in {"index", "reorder_draft"}
       \/ last.op = "list_parts" /\ last.id = 1
       => /\ RowsOf(last.flash) = {p \in DOMAIN db.parts : is_low_stock(db.parts[p])}
          /\ Len(last.flash.rows) = Cardinality(RowsOf(last.flash))

\* C24 witness: the reorder draft lists the Part whose stock equals its
\* threshold and leaves out the Part with one unit more than its threshold
C24_Witness ==
    /\ last.op = "reorder_draft"
    /\ DOMAIN db.parts = {1, 2}
    /\ db.parts[1].stock = db.parts[1].reorder_threshold
    /\ db.parts[2].stock = db.parts[2].reorder_threshold + 1
    /\ last.flash.rows = <<1>>

(* C25: suggested_reorder_qty(part) is 0 when the part is not low-stock    *)
(* and otherwise max(max(reorder_threshold * 2, stock + 1) - stock, 1); it *)
(* is strictly positive for every low-stock part with stock >= 0 and       *)
(* reorder_threshold >= 0; threshold 10 with stock 4 gives 16 and          *)
(* threshold 5 with stock 5 gives 5.                                       *)
C25_SuggestedQty ==
    /\ \A p \in DOMAIN db.parts :
          LET stock == db.parts[p].stock
              threshold == db.parts[p].reorder_threshold
              suggested == suggested_reorder_qty(db.parts[p])
          IN /\ stock > threshold => suggested = 0
             /\ stock <= threshold =>
                   suggested = Max2(Max2(threshold * 2, stock + 1) - stock, 1)
             /\ stock <= threshold /\ stock >= 0 /\ threshold >= 0 => suggested > 0
             /\ threshold = 10 /\ stock = 4 => suggested = 16
             /\ threshold = 5 /\ stock = 5 => suggested = 5
    /\ last.op = "suggested_reorder_qty" =>
          last.flash = suggested_reorder_qty(db.parts[last.id])

\* C25 witness: with a Part of threshold 10 and stock 4 and a Part of
\* threshold 5 and stock 5, the suggestion shown for the second is 5
C25_Witness ==
    /\ last.op = "suggested_reorder_qty" /\ last.id = 2 /\ last.flash = 5
    /\ DOMAIN db.parts = {1, 2}
    /\ db.parts[1].reorder_threshold = 10 /\ db.parts[1].stock = 4
    /\ db.parts[2].reorder_threshold = 5 /\ db.parts[2].stock = 5
    /\ suggested_reorder_qty(db.parts[1]) = 16

-----------------------------------------------------------------------------
(* Vendors and the purchase orders that refer to them.                     *)

(* C26: deleting a Vendor does not orphan POs: a PO whose vendor_id named  *)
(* an existing Vendor before a delete_vendor names an existing Vendor or   *)
(* none after it (the delete is refused, or the reference becomes null).   *)
C26_DeleteVendorKeepsPoReference ==
    [][last'.op = "delete_vendor" =>
          \A po \in DOMAIN db.pos :
              db.pos[po].vendor_id \in DOMAIN db.vendors =>
                  \/ db'.pos[po].vendor_id = NoVendor
                  \/ db'.pos[po].vendor_id \in DOMAIN db'.vendors]_vars

-----------------------------------------------------------------------------
(* The state machine under requests served at the same time.               *)

(* C30: when two requests on the same PO (cancel and send, cancel and      *)
(* receive) both read its status before either commits, every committed    *)
(* change of status is still an edge of the state machine, so a PO         *)
(* committed as CANCELED or RECEIVED is never given another status.        *)
C30_EdgesUnderInterleaving ==
    [][\A p \in DOMAIN db.pos :
            db'.pos[p].status # db.pos[p].status
                => /\ Edge(db.pos[p].status, db'.pos[p].status)
                   /\ db.pos[p].status \notin {"CANCELED", "RECEIVED"}]_vars

-----------------------------------------------------------------------------
(* A receive submitted twice.                                              *)

(* C31: under two receive requests on the same PO line served at the same  *)
(* time the quantity received is not counted twice: once both have         *)
(* committed, the PO_RECEIVE ledger rows of the line and the stock added   *)
(* for it are each at most qty_ordered and equal to the line's             *)
(* qty_received.                                                           *)
C31_ReceivedOnce ==
    reqs = NoRequests =>
        \A i \in DOMAIN db.items :
            LET it == db.items[i]
                ledger == SumReceived(db.movements, it.purchase_order_id, it.product_id)
            IN /\ ledger <= it.qty_ordered
               /\ ledger = it.qty_received
               /\ \A form \in RaceForms :
                     LET added == db.parts[it.product_id].stock - PartStock(form)
                     IN added <= it.qty_ordered /\ added = it.qty_received

=============================================================================
